---- MODULE Spec2Model ----
(***************************************************************************)
(* Corrade::Cpu -- CPU instruction set tags, their priority, compile-time  *)
(* overload selection (CORRADE_CPU_DECLARE / CORRADE_CPU_SELECT), the      *)
(* runtime dispatcher (CORRADE_CPU_DISPATCHER) and the cached dispatch     *)
(* (CORRADE_CPU_DISPATCHED_POINTER / CORRADE_CPU_DISPATCHED_IFUNC).        *)
(*                                                                         *)
(* An unsigned int is modelled as the set of positions of its set bits     *)
(* (a subset of 0..31), so that &, |, ^ and ~ are exact on all 32 bits;    *)
(* where the code does arithmetic on a value (x - 1, >=, the template      *)
(* arguments of BitIndex and BitCount) the value is converted to a number. *)
(***************************************************************************)
EXTENDS Integers, Sequences, FiniteSets, TLC

VARIABLES
    arch,       \* target architecture the header is compiled for
    registry,   \* tag values of the overloads declared with CORRADE_CPU_DECLARE
    listed,     \* extra tags passed to CORRADE_CPU_DISPATCHER, in order
    pc,         \* position in the life of the translation unit / process
    features,   \* Cpu::Features passed to the last dispatcher call
    selected,   \* tags passed to the last CORRADE_CPU_SELECT
    result,     \* outcome of the last overload resolution
    hw,         \* instruction sets the detection finds on the machine
    slot,       \* function pointer of CORRADE_CPU_DISPATCHED_POINTER
    ifunc,      \* symbol binding made by the CORRADE_CPU_DISPATCHED_IFUNC resolver
    invoked,    \* variant executed by the last call
    a,          \* first tag value given to priority()
    b,          \* second tag value given to priority()
    pa,         \* priority(Tags<a>)
    pb,         \* priority(Tags<b>)
    ps,         \* priority(T) of the single tag whose Index is a
    probing,    \* whether runtimeFeatures() is the detecting, exported function
    macros,     \* CORRADE_TARGET_* instruction set macros defined in the build
    signals,    \* what CPUID and the OS report on the machine
    c,          \* third operand of the Features operators
    out         \* results of the last operators or queries applied

vars == <<arch, registry, listed, pc, features, selected, result, hw, slot,
          ifunc, invoked, a, b, pa, pb, ps, probing, macros, signals, c, out>>

\* the variables of the feature queries and of the operators on values
queryVars == <<probing, macros, signals, c, out>>

---------------------------------------------------------------------------
(* unsigned int as a set of bit positions *)

Word == 0 .. 31

BitAnd(x, y) == x \cap y
BitOr(x, y) == x \cup y
BitXor(x, y) == (x \ y) \cup (y \ x)
\* ~ on the low half of the word only
BitNotLowHalf(x) == (0 .. 15) \ x
BitNot(x) == Word \ x
Bit(n) == {n}
Shr(x, n) == {i - n : i \in {j \in x : j >= n}}

Min(s) == CHOOSE m \in s : \A o \in s : m <= o
Max(s) == CHOOSE m \in s : \A o \in s : m >= o

\* x - 1 on an unsigned int: 0 wraps around to 0xffffffff
Dec(x) == IF x = {} THEN Word ELSE (x \ {Min(x)}) \cup {i \in Word : i < Min(x)}

RECURSIVE ToNat(_)
ToNat(x) == IF x = {} THEN 0 ELSE LET m == Max(x) IN 2^m + ToNat(x \ {m})

\* x & y on numbers
RECURSIVE AndN(_, _)
AndN(x, y) ==
    IF x = 0 \/ y = 0 THEN 0
    ELSE (x % 2) * (y % 2) + 2 * AndN(x \div 2, y \div 2)

---------------------------------------------------------------------------
(* tags: TypeTraits<T>::Index *)

ExtraTagBitOffset == 16

Scalar == {}

Sse2 == Bit(0)
Sse3 == Bit(1)
Ssse3 == Bit(2)
Sse41 == Bit(3)
Sse42 == Bit(4)
Avx == Bit(5)
Avx2 == Bit(6)
Avx512f == Bit(7)
\* Popcnt given the first bit of the word instead of the first extra bit
PopcntAtBitZero == Bit(0)
Popcnt == Bit(0 + ExtraTagBitOffset)
Lzcnt == Bit(1 + ExtraTagBitOffset)
AvxF16c == Bit(2 + ExtraTagBitOffset)
AvxFma == Bit(3 + ExtraTagBitOffset)

Neon == Bit(0)
NeonFma == Bit(1)
NeonFp16 == Bit(2)

Simd128 == Bit(0)

Architectures == {"x86", "arm", "wasm"}

\* the base tags of an architecture, highest tier first, as the dispatcher
\* macros list them
BaseTags(ar) ==
    CASE ar = "x86" -> <<Avx512f, Avx2, Avx, Sse42, Sse41, Ssse3, Sse3, Sse2>>
      [] ar = "arm" -> <<NeonFp16, NeonFma, Neon>>
      [] ar = "wasm" -> <<Simd128>>
      [] OTHER -> <<>>

\* the extra tags of an architecture, lowest bit first
ExtraTags(ar) ==
    CASE ar = "x86" -> <<Popcnt, Lzcnt, AvxF16c, AvxFma>>
      [] OTHER -> <<>>

Range(s) == {s[i] : i \in 1 .. Len(s)}

BaseTagMask == Dec(Bit(ExtraTagBitOffset))
ExtraTagMask == BitAnd(Word, BitNot(BaseTagMask))

X86ExtraTagCount == 4
OtherExtraTagCount == 0
ExtraTagCount(ar) == IF ar = "x86" THEN X86ExtraTagCount ELSE OtherExtraTagCount

---------------------------------------------------------------------------
(* Implementation::BitIndex, BitCount, priority *)

\* BitIndex without the "plus one": the plain base-2 logarithm
RECURSIVE BitIndexLog2(_)
BitIndexLog2(A) == IF A <= 1 THEN 0 ELSE (1 + BitIndexLog2(A \div 2)) % 65536

RECURSIVE BitIndex(_)
BitIndex(A) == IF A = 0 THEN 0 ELSE (1 + BitIndex(A \div 2)) % 65536

Bits1 == 21845
Bits2 == 13107
Bits4 == 3855
Bits8 == 255

\* BitCount without the last step, the sum of the two bytes
BitCountLowByte(A) ==
    LET B0 == AndN(A \div 1, Bits1)
        B1 == AndN(A \div 2, Bits1)
        C == (B0 + B1) % 65536
        D0 == AndN(C \div 1, Bits2)
        D2 == AndN(C \div 4, Bits2)
        E == (D0 + D2) % 65536
        F0 == AndN(E \div 1, Bits4)
        F4 == AndN(E \div 16, Bits4)
        G == (F0 + F4) % 65536
    IN  AndN(G \div 1, Bits8)

BitCount(A) ==
    LET B0 == AndN(A \div 1, Bits1)
        B1 == AndN(A \div 2, Bits1)
        C == (B0 + B1) % 65536
        D0 == AndN(C \div 1, Bits2)
        D2 == AndN(C \div 4, Bits2)
        E == (D0 + D2) % 65536
        F0 == AndN(E \div 1, Bits4)
        F4 == AndN(E \div 16, Bits4)
        G == (F0 + F4) % 65536
        H0 == AndN(G \div 1, Bits8)
        H8 == AndN(G \div 256, Bits8)
    IN  (H0 + H8) % 65536

\* the test without the mask: !(value & (value - 1))
AtMostOneBaseUnmasked(value) == BitAnd(value, Dec(value)) = {}

\* !((value & BaseTagMask) & ((value & BaseTagMask) - 1))
AtMostOneBase(value) ==
    BitAnd(BitAnd(value, BaseTagMask), Dec(BitAnd(value, BaseTagMask))) = {}

\* the bound of the static_assert taken with <= in place of <
ExtraInBoundsInclusive(ar, value) ==
    ToNat(Shr(BitAnd(value, ExtraTagMask), ExtraTagBitOffset)) <= 2^ExtraTagCount(ar)

\* ((value & ExtraTagMask) >> ExtraTagBitOffset) < (1 << ExtraTagCount)
ExtraInBounds(ar, value) ==
    ToNat(Shr(BitAnd(value, ExtraTagMask), ExtraTagBitOffset)) < 2^ExtraTagCount(ar)

\* a priority: the i of the returned Priority<i>, or the instantiation is
\* rejected by a static_assert
Accepted(i) == [accepted |-> TRUE, index |-> i]
Rejected == [accepted |-> FALSE, index |-> 0]

\* priority(T) for a tag type T with TypeTraits<T>::Index = index
priorityTag(ar, index) ==
    IF BitAnd(index, ExtraTagMask) # {}
    THEN Accepted(1)
    ELSE Accepted(BitIndex(ToNat(BitAnd(index, BaseTagMask))) * (ExtraTagCount(ar) + 1))

\* priorityTags with the base rank multiplied by ExtraTagCount, not by
\* ExtraTagCount + 1
priorityTagsNarrowBase(ar, value) ==
    IF ~AtMostOneBase(value) THEN Rejected
    ELSE IF ~ExtraInBounds(ar, value) THEN Rejected
    ELSE Accepted(BitIndex(ToNat(BitAnd(value, BaseTagMask))) * ExtraTagCount(ar)
                  + BitCount(ToNat(Shr(BitAnd(value, ExtraTagMask), ExtraTagBitOffset))))

\* priorityTags adding the extra bits as a number instead of counting them
priorityTagsRawExtra(ar, value) ==
    IF ~AtMostOneBase(value) THEN Rejected
    ELSE IF ~ExtraInBounds(ar, value) THEN Rejected
    ELSE Accepted(BitIndex(ToNat(BitAnd(value, BaseTagMask))) * (ExtraTagCount(ar) + 1)
                  + ToNat(Shr(BitAnd(value, ExtraTagMask), ExtraTagBitOffset)))

\* priority(Tags<value>)
priorityTags(ar, value) ==
    IF ~AtMostOneBase(value) THEN Rejected
    ELSE IF ~ExtraInBounds(ar, value) THEN Rejected
    ELSE Accepted(BitIndex(ToNat(BitAnd(value, BaseTagMask))) * (ExtraTagCount(ar) + 1)
                  + BitCount(ToNat(Shr(BitAnd(value, ExtraTagMask), ExtraTagBitOffset))))

\* the messages of the static_asserts of priority(Tags<value>) that fail
MoreThanOneBase == "more than one base tag used"
ExtraOutOfBounds == "extra tag out of expected bounds"
priorityDiagnostics(ar, value) ==
    (IF AtMostOneBase(value) THEN {} ELSE {MoreThanOneBase})
    \cup (IF ExtraInBounds(ar, value) THEN {} ELSE {ExtraOutOfBounds})

\* the message of the static_assert of Features(T) for a tag type T with
\* TypeTraits<T>::Index = index, when it fails
constructDiagnostics(ar, index) ==
    IF ExtraInBounds(ar, index) THEN {} ELSE {ExtraOutOfBounds}

---------------------------------------------------------------------------
(* Features::operator>= and operator<= *)

\* operator>= testing for any common bit, as operator& in a condition does
FeaturesGeAny(x, other) == BitAnd(x, other) # {}

\* >= testing the subset instead of the superset
FeaturesGeSwapped(x, other) == BitAnd(x, other) = x
FeaturesGe(x, other) == BitAnd(x, other) = other
\* <= as a proper subset
FeaturesLeProper(x, other) == BitAnd(x, other) = x /\ x # other
FeaturesLe(x, other) == BitAnd(x, other) = x

---------------------------------------------------------------------------
(* Implementation::Tags converting constructors *)

\* the conversion with the two sides exchanged: the constructed combination
\* has to hold what the argument holds
IsTagConversionAllowedReversed(value, otherValue) ==
    /\ BitAnd(BitAnd(value, BaseTagMask), Dec(BitAnd(value, BaseTagMask))) = {}
    /\ BitAnd(BitAnd(otherValue, BaseTagMask), Dec(BitAnd(otherValue, BaseTagMask))) = {}
    /\ ToNat(BitAnd(value, BaseTagMask)) >= ToNat(BitAnd(otherValue, BaseTagMask))
    /\ BitAnd(BitAnd(otherValue, value), ExtraTagMask) = BitAnd(otherValue, ExtraTagMask)

IsTagConversionAllowed(value, otherValue) ==
    /\ AtMostOneBase(value)
    /\ AtMostOneBase(otherValue)
    /\ ToNat(BitAnd(otherValue, BaseTagMask)) >= ToNat(BitAnd(value, BaseTagMask))
    /\ BitAnd(BitAnd(otherValue, value), ExtraTagMask) = BitAnd(value, ExtraTagMask)

\* the single-tag conversion accepted only into combinations without extra
\* bits
IsSingleTagConversionAllowedNoExtra(value, otherIndex) ==
    /\ AtMostOneBase(value)
    /\ ToNat(BitAnd(otherIndex, BaseTagMask)) >= ToNat(BitAnd(value, BaseTagMask))
    /\ BitAnd(value, ExtraTagMask) = {}

IsSingleTagConversionAllowed(value, otherIndex) ==
    /\ AtMostOneBase(value)
    /\ ToNat(BitAnd(otherIndex, BaseTagMask)) >= ToNat(BitAnd(value, BaseTagMask))
    /\ BitAnd(BitAnd(otherIndex, value), ExtraTagMask) = BitAnd(value, ExtraTagMask)

---------------------------------------------------------------------------
(* CORRADE_CPU_DECLARE / CORRADE_CPU_SELECT: overload resolution between   *)
(* the declared overloads f(Tags<D>, Priority<p(D)>) for the arguments     *)
(* (tag, priority(tag)).  A selection is [single, value]: single is TRUE   *)
(* when the argument is a tag type T with Index = value, FALSE when it is  *)
(* a Tags<value>.                                                          *)

\* the tag types of an architecture (their Index)
TagTypes(ar) == {Scalar} \cup Range(BaseTags(ar)) \cup Range(ExtraTags(ar))

\* decltype(priority(tag)) of a declared overload: a lone tag is declared as
\* the tag itself, a combination as Tags<>
DeclaredPriority(ar, D) ==
    IF D \in TagTypes(ar) THEN priorityTag(ar, D) ELSE priorityTags(ar, D)

\* priority(tag) of CORRADE_CPU_SELECT(tag)
SelectPriority(ar, sel) ==
    IF sel.single THEN priorityTag(ar, sel.value) ELSE priorityTags(ar, sel.value)

\* the first argument converts to Tags<D> without a user-defined conversion
ExactTag(D, sel) == ~sel.single /\ D = sel.value

\* the first argument converts to the parameter Tags<D>
TagConvertible(D, sel) ==
    IF sel.single
    THEN IsSingleTagConversionAllowed(D, sel.value)
    ELSE ExactTag(D, sel) \/ IsTagConversionAllowed(D, sel.value)

\* Priority<i> derives from Priority<i - 1>: Priority<pS> converts to
\* Priority<pD> when pD <= pS
PriorityConvertible(pD, pS) == pD.index <= pS.index

Viable(ar, D, sel) ==
    /\ TagConvertible(D, sel)
    /\ PriorityConvertible(DeclaredPriority(ar, D), SelectPriority(ar, sel))

\* overload D1 is a better match than D2: an identity beats a converting
\* constructor, converting constructors of two types are indistinguishable,
\* a conversion to a nearer base class beats one to a farther base class
Better(ar, D1, D2, sel) ==
    LET p1 == DeclaredPriority(ar, D1).index
        p2 == DeclaredPriority(ar, D2).index
    IN  /\ ExactTag(D1, sel) \/ ~ExactTag(D2, sel)
        /\ p1 >= p2
        /\ (ExactTag(D1, sel) /\ ~ExactTag(D2, sel)) \/ p1 > p2

NoResult == [kind |-> "idle", tag |-> {}]
NoMatch == [kind |-> "nomatch", tag |-> {}]
Ambiguous == [kind |-> "ambiguous", tag |-> {}]
RejectedTags == [kind |-> "rejected", tag |-> {}]
Variant(D) == [kind |-> "variant", tag |-> D]

\* OverloadResolution that lets one of the equally ranked overloads win
OverloadResolutionFirstWins(ar, reg, sel) ==
    IF ~SelectPriority(ar, sel).accepted THEN RejectedTags
    ELSE LET viable == {D \in reg : Viable(ar, D, sel)}
             best == {D \in viable :
                        \A O \in viable : DeclaredPriority(ar, D).index
                                            >= DeclaredPriority(ar, O).index}
         IN  IF viable = {} THEN NoMatch
             ELSE Variant(CHOOSE D \in best : TRUE)

OverloadResolution(ar, reg, sel) ==
    IF ~SelectPriority(ar, sel).accepted THEN RejectedTags
    ELSE LET viable == {D \in reg : Viable(ar, D, sel)}
             best == {D \in viable : \A O \in viable \ {D} : Better(ar, D, O, sel)}
         IN  IF viable = {} THEN NoMatch
             ELSE IF best = {} THEN Ambiguous
             ELSE Variant(CHOOSE D \in best : TRUE)

---------------------------------------------------------------------------
(* CORRADE_CPU_DISPATCHER *)

\* Internal adding every listed tag, present in features or not
RECURSIVE InternalAllListed(_, _, _)
InternalAllListed(F, extra, rest) ==
    IF rest = <<>> THEN extra
    ELSE InternalAllListed(F, BitOr(extra, Head(rest)), Tail(rest))

\* function ## Internal: collects the listed extra tags present in features
RECURSIVE Internal(_, _, _)
Internal(F, extra, rest) ==
    IF rest = <<>> THEN extra
    ELSE IF BitAnd(F, Head(rest)) # {}
         THEN Internal(F, BitOr(extra, Head(rest)), Tail(rest))
         ELSE Internal(F, extra, Tail(rest))

\* Implementation testing the lowest base tag first
RECURSIVE ImplementationLowestFirst(_, _, _)
ImplementationLowestFirst(F, extra, tiers) ==
    IF tiers = <<>> THEN BitOr(Scalar, extra)
    ELSE IF FeaturesGe(F, BitOr(tiers[Len(tiers)], extra))
         THEN BitOr(tiers[Len(tiers)], extra)
         ELSE ImplementationLowestFirst(F, extra, SubSeq(tiers, 1, Len(tiers) - 1))

\* _CORRADE_CPU_DISPATCHER_IMPLEMENTATION: the tags given to CORRADE_CPU_SELECT
RECURSIVE Implementation(_, _, _)
Implementation(F, extra, tiers) ==
    IF tiers = <<>> THEN BitOr(Scalar, extra)
    ELSE IF FeaturesGe(F, BitOr(Head(tiers), extra))
         THEN BitOr(Head(tiers), extra)
         ELSE Implementation(F, extra, Tail(tiers))

\* a dispatcher selecting with every extra bit of features, listed or not
DispatcherSelectEveryExtra(ar, lst, F) ==
    [single |-> FALSE,
     value |-> Implementation(F, BitAnd(F, ExtraTagMask), BaseTags(ar))]

\* _CORRADE_CPU_DISPATCHER0 selects with a lone tag, _CORRADE_CPU_DISPATCHERn
\* with tag | Tags<value>
DispatcherSelect(ar, lst, F) ==
    IF lst = <<>>
    THEN [single |-> TRUE, value |-> Implementation(F, {}, BaseTags(ar))]
    ELSE [single |-> FALSE,
          value |-> Implementation(F, Internal(F, {}, lst), BaseTags(ar))]

Dispatcher(ar, reg, lst, F) == OverloadResolution(ar, reg, DispatcherSelect(ar, lst, F))

\* Instantiations without the final call for Cpu::Scalar
InstantiationsNoScalar(ar, lst) ==
    {[single |-> lst = <<>>, value |-> BitOr(base, UNION e)] :
        base \in Range(BaseTags(ar)), e \in SUBSET Range(lst)}

\* every function(CORRADE_CPU_SELECT(...)) call the macro expansion contains
Instantiations(ar, lst) ==
    {[single |-> lst = <<>>, value |-> BitOr(base, UNION e)] :
        base \in {Scalar} \cup Range(BaseTags(ar)), e \in SUBSET Range(lst)}

\* compiling the dispatcher: the static_assert on the listed tags, then
\* every call in the expansion has to resolve
BuildOutcome(ar, reg, lst) ==
    LET res == {OverloadResolution(ar, reg, sel) : sel \in Instantiations(ar, lst)}
    IN  IF \E e \in Range(lst) : BitAnd(e, BaseTagMask) # {} THEN "listed_base"
        ELSE IF RejectedTags \in res THEN "rejected"
        ELSE IF NoMatch \in res THEN "nomatch"
        ELSE IF Ambiguous \in res THEN "ambiguous"
        ELSE "ok"

---------------------------------------------------------------------------
(* bounds of the model and the inputs drawn within them.  The dispatcher   *)
(* always scans every base tag of the architecture; the declared variants  *)
(* and the feature sets use the lowest NumBaseTiers base tags and, on x86, *)
(* the extra tags Popcnt and Lzcnt.                                        *)

MaxVariants == 3
NumBaseTiers == 2
MaxListed == 2

UsedBaseTags(ar) ==
    LET t == BaseTags(ar)
    IN  {t[i] : i \in {j \in 1 .. Len(t) : j > Len(t) - NumBaseTiers}}

UsedExtraTags(ar) == IF ar = "x86" THEN {Popcnt, Lzcnt} ELSE {}

\* unions of some of the tags in s
Combinations(s) == {UNION e : e \in SUBSET s}

\* tag combinations an overload can be declared for
DeclarableTags(ar) ==
    {BitOr(base, extra) : base \in {Scalar} \cup UsedBaseTags(ar),
                          extra \in Combinations(UsedExtraTags(ar))}

\* arguments of CORRADE_CPU_SELECT in a direct call
Selections(ar) ==
    {[single |-> FALSE, value |-> v] : v \in DeclarableTags(ar)}
    \cup {[single |-> TRUE, value |-> v] : v \in DeclarableTags(ar) \cap TagTypes(ar)}

\* feature sets a dispatcher can be called with
FeatureInputs(ar) == Combinations(UsedBaseTags(ar) \cup UsedExtraTags(ar))

\* tags that can be listed in CORRADE_CPU_DISPATCHER: the extra tags, and the
\* lowest base tag, which the macro's static_assert refuses
ListableTags(ar) == UsedExtraTags(ar) \cup {BaseTags(ar)[Len(BaseTags(ar))]}

NoSelection == [single |-> TRUE, value |-> {}]
NoPriority == [accepted |-> FALSE, index |-> -1]
NoOut == [op |-> "none"]

---------------------------------------------------------------------------
(* Spec: declaring the overloads, direct compile-time selection, building  *)
(* and calling the runtime dispatcher                                      *)

Init ==
    /\ arch \in Architectures
    /\ registry = {}
    /\ listed = <<>>
    /\ pc = "declare"
    /\ features = {}
    /\ selected = NoSelection
    /\ result = NoResult
    /\ hw = {}
    /\ slot = NoResult
    /\ ifunc = NoResult
    /\ invoked = NoResult
    /\ a = {}
    /\ b = {}
    /\ pa = NoPriority
    /\ pb = NoPriority
    /\ ps = NoPriority
    /\ probing = FALSE
    /\ macros = {}
    /\ signals = {}
    /\ c = {}
    /\ out = NoOut

\* an overload f(CORRADE_CPU_DECLARE(D)) is declared
Declare(D) ==
    /\ pc = "declare"
    /\ D \notin registry
    /\ Cardinality(registry) < MaxVariants
    /\ registry' = registry \cup {D}
    /\ UNCHANGED <<arch, listed, pc, features, selected, result, hw, slot, ifunc,
                   invoked, a, b, pa, pb, ps>>
    /\ UNCHANGED queryVars

\* a direct call f(CORRADE_CPU_SELECT(sel)) is compiled
SelectCall(sel) ==
    /\ pc = "declare"
    /\ pc' = "direct"
    /\ selected' = sel
    /\ result' = OverloadResolution(arch, registry, sel)
    /\ UNCHANGED <<arch, registry, listed, features, hw, slot, ifunc, invoked,
                   a, b, pa, pb, ps>>
    /\ UNCHANGED queryVars

\* one more tag in the argument list of CORRADE_CPU_DISPATCHER
ListExtra(e) ==
    /\ pc \in {"declare", "list"}
    /\ Len(listed) < MaxListed
    /\ e \notin Range(listed)
    /\ listed' = Append(listed, e)
    /\ pc' = "list"
    /\ UNCHANGED <<arch, registry, features, selected, result, hw, slot, ifunc,
                   invoked, a, b, pa, pb, ps>>
    /\ UNCHANGED queryVars

\* CORRADE_CPU_DISPATCHER(type, function, listed...) is compiled
Build ==
    /\ pc \in {"declare", "list"}
    /\ LET o == BuildOutcome(arch, registry, listed)
       IN  /\ pc' = IF o = "ok" THEN "built" ELSE "failed"
           /\ result' = [kind |-> o, tag |-> {}]
    /\ UNCHANGED <<arch, registry, listed, features, selected, hw, slot, ifunc,
                   invoked, a, b, pa, pb, ps>>
    /\ UNCHANGED queryVars

\* the dispatcher is called: function(F)
Dispatch(F) ==
    /\ pc = "built"
    /\ pc' = "dispatched"
    /\ features' = F
    /\ selected' = DispatcherSelect(arch, listed, F)
    /\ result' = Dispatcher(arch, registry, listed, F)
    /\ UNCHANGED <<arch, registry, listed, hw, slot, ifunc, invoked, a, b, pa,
                   pb, ps>>
    /\ UNCHANGED queryVars

Next ==
    \/ \E D \in DeclarableTags(arch) : Declare(D)
    \/ \E sel \in Selections(arch) : SelectCall(sel)
    \/ \E e \in ListableTags(arch) : ListExtra(e)
    \/ Build
    \/ \E F \in FeatureInputs(arch) : Dispatch(F)

Spec == Init /\ [][Next]_vars

---------------------------------------------------------------------------
(* SpecPriority: priority() applied to every pair of tag values of the     *)
(* architecture, valid or not                                              *)

ValidTags(ar) ==
    {BitOr(base, extra) : base \in {Scalar} \cup Range(BaseTags(ar)),
                          extra \in Combinations(Range(ExtraTags(ar)))}

\* two base tags at once, or an extra bit above the architecture's extra tags
InvalidTags(ar) ==
    {BitOr(p[1], p[2]) :
        p \in {q \in Range(BaseTags(ar)) \X Range(BaseTags(ar)) : q[1] # q[2]}}
    \cup {BitOr(base, BitOr(extra, Bit(k))) :
            base \in {Scalar} \cup Range(BaseTags(ar)),
            extra \in {{}} \cup {e \in Range(ExtraTags(ar)) : e = Popcnt},
            k \in {ExtraTagBitOffset + ExtraTagCount(ar),
                   ExtraTagBitOffset + ExtraTagCount(ar) + 1, 31}}

PriorityInputs(ar) == ValidTags(ar) \cup InvalidTags(ar)

InitPriority ==
    /\ arch \in Architectures
    /\ a \in PriorityInputs(arch)
    /\ b \in PriorityInputs(arch)
    /\ pc = "tags"
    /\ pa = NoPriority
    /\ pb = NoPriority
    /\ ps = NoPriority
    /\ registry = {}
    /\ listed = <<>>
    /\ features = {}
    /\ selected = NoSelection
    /\ result = NoResult
    /\ hw = {}
    /\ slot = NoResult
    /\ ifunc = NoResult
    /\ invoked = NoResult
    /\ probing = FALSE
    /\ macros = {}
    /\ signals = {}
    /\ c = {}
    /\ out = NoOut

\* priority(Tags<a>), priority(Tags<b>) and, when a is the Index of a tag
\* type T, priority(T); Features(T) for a tag type T of Index a, a lone bit
ComputePriority ==
    /\ pc = "tags"
    /\ pc' = "ranked"
    /\ pa' = priorityTags(arch, a)
    /\ pb' = priorityTags(arch, b)
    /\ ps' = IF a \in TagTypes(arch) THEN priorityTag(arch, a) ELSE NoPriority
    /\ UNCHANGED <<arch, registry, listed, features, selected, result, hw, slot,
                   ifunc, invoked, a, b>>
    /\ out' = [op |-> "priority",
                diagnostics |-> priorityDiagnostics(arch, a),
                construct |-> IF Cardinality(a) <= 1
                              THEN constructDiagnostics(arch, a) ELSE {}]
    /\ UNCHANGED <<probing, macros, signals, c>>

NextPriority == ComputePriority

SpecPriority == InitPriority /\ [][NextPriority]_vars

---------------------------------------------------------------------------
(* SpecCompiled: compiledFeatures() and runtimeFeatures() queried in a     *)
(* build with any set of instruction set macros defined                    *)

\* the CORRADE_TARGET_* macros compiledFeatures() tests on an architecture
\* and the tag each one adds, in the order of the code
TargetMacros(ar) ==
    CASE ar = "x86" -> << <<"SSE2", Sse2>>, <<"SSE3", Sse3>>, <<"SSSE3", Ssse3>>,
                          <<"SSE41", Sse41>>, <<"SSE42", Sse42>>,
                          <<"POPCNT", Popcnt>>, <<"LZCNT", Lzcnt>>,
                          <<"AVX", Avx>>, <<"AVX_FMA", AvxFma>>,
                          <<"AVX_F16C", AvxF16c>>, <<"AVX2", Avx2>> >>
      [] ar = "arm" -> << <<"NEON", Neon>>, <<"NEON_FMA", NeonFma>>,
                          <<"NEON_FP16", NeonFp16>> >>
      [] ar = "wasm" -> << <<"SIMD128", Simd128>> >>
      [] OTHER -> <<>>

MacroNames(ar) == {m[1] : m \in Range(TargetMacros(ar))}

\* every CORRADE_TARGET_* instruction set macro of an architecture with its
\* tag: DefaultBaseT and DefaultExtraT test AVX512F as well
BuildMacros(ar) ==
    IF ar = "x86"
    THEN TargetMacros(ar) \o << <<"AVX512F", Avx512f>> >>
    ELSE TargetMacros(ar)

BuildMacroNames(ar) == {m[1] : m \in Range(BuildMacros(ar))}

\* whether the macro of a tag is defined
TagEnabled(ar, defined, tag) ==
    \E m \in Range(BuildMacros(ar)) : m[2] = tag /\ m[1] \in defined

\* DefaultBaseT: the first base tag, from the highest down, whose macro is
\* defined, ScalarT when none is
DefaultBase(ar, defined) ==
    LET on == {i \in 1 .. Len(BaseTags(ar)) : TagEnabled(ar, defined, BaseTags(ar)[i])}
    IN  IF on = {} THEN Scalar ELSE BaseTags(ar)[Min(on)]

\* DefaultExtraT: the extra tags whose macro is defined
DefaultExtra(ar, defined) ==
    UNION {t \in Range(ExtraTags(ar)) : TagEnabled(ar, defined, t)}

\* DefaultT: Tags<TypeTraits<DefaultBaseT>::Index | DefaultExtraT::Value>
Default(ar, defined) == BitOr(DefaultBase(ar, defined), DefaultExtra(ar, defined))

\* compiledFeatures() keeping only the highest of the enabled base tags
compiledFeaturesHighestBase(ar, defined) ==
    LET on == {m[2] : m \in {q \in Range(TargetMacros(ar)) : q[1] \in defined}}
        all == UNION on
        base == BitAnd(all, BaseTagMask)
    IN  BitOr(IF base = {} THEN {} ELSE {Max(base)}, BitAnd(all, ExtraTagMask))

\* Features{Index| ... |0} over the macros that are defined
compiledFeatures(ar, defined) ==
    UNION {m[2] : m \in {q \in Range(TargetMacros(ar)) : q[1] \in defined}}

\* runtimeFeatures() detecting in every build
runtimeFeaturesAlwaysDetected == hw

\* runtimeFeatures() delegating to compiledFeatures() in every build
runtimeFeaturesAlwaysCompiled == compiledFeatures(arch, macros)

\* Cpu::runtimeFeatures(): the exported function that detects the instruction
\* sets of the machine on the platforms that have one, compiledFeatures() on
\* the others
runtimeFeatures ==
    IF probing THEN hw ELSE compiledFeatures(arch, macros)

\* every tag bit of an architecture
AllTags(ar) == UNION (Range(BaseTags(ar)) \cup Range(ExtraTags(ar)))

InitCompiled ==
    /\ arch \in Architectures
    /\ macros \in SUBSET BuildMacroNames(arch)
    /\ probing \in BOOLEAN
    /\ hw \in IF probing THEN FeatureInputs(arch) ELSE {{}, AllTags(arch)}
    /\ pc = "run"
    /\ out = NoOut
    /\ signals = {}
    /\ c = {}
    /\ registry = {}
    /\ listed = <<>>
    /\ features = {}
    /\ selected = NoSelection
    /\ result = NoResult
    /\ slot = NoResult
    /\ ifunc = NoResult
    /\ invoked = NoResult
    /\ a = {}
    /\ b = {}
    /\ pa = NoPriority
    /\ pb = NoPriority
    /\ ps = NoPriority

\* a call of Cpu::compiledFeatures()
CallCompiledFeatures ==
    /\ pc = "run"
    /\ out' = [op |-> "compiledFeatures", value |-> compiledFeatures(arch, macros)]
    /\ UNCHANGED <<arch, registry, listed, pc, features, selected, result, hw,
                   slot, ifunc, invoked, a, b, pa, pb, ps, probing, macros,
                   signals, c>>

\* a call of Cpu::runtimeFeatures()
CallRuntimeFeatures ==
    /\ pc = "run"
    /\ out' = [op |-> "runtimeFeatures", value |-> runtimeFeatures]
    /\ UNCHANGED <<arch, registry, listed, pc, features, selected, result, hw,
                   slot, ifunc, invoked, a, b, pa, pb, ps, probing, macros,
                   signals, c>>

\* Cpu::DefaultBase, Cpu::DefaultExtra and Cpu::Default used next to
\* compiledFeatures()
UseDefault ==
    /\ pc = "run"
    /\ out' = [op |-> "Default",
               base |-> DefaultBase(arch, macros),
               extra |-> DefaultExtra(arch, macros),
               value |-> Default(arch, macros),
               compiled |-> compiledFeatures(arch, macros)]
    /\ UNCHANGED <<arch, registry, listed, pc, features, selected, result, hw,
                   slot, ifunc, invoked, a, b, pa, pb, ps, probing, macros,
                   signals, c>>

NextCompiled ==
    \/ CallCompiledFeatures
    \/ CallRuntimeFeatures
    \/ UseDefault

SpecCompiled == InitCompiled /\ [][NextCompiled]_vars

---------------------------------------------------------------------------
(* SpecDetect: the detecting runtimeFeatures() on x86, as its              *)
(* documentation describes it: CPUID is asked for each instruction set in  *)
(* turn, Avx needs the operating system's support as well, and without it  *)
(* no flag after Avx is checked                                            *)

\* the flags checked before Avx, each by its own CPUID bit
CpuidChecks ==
    << <<"SSE2", Sse2>>, <<"SSE3", Sse3>>, <<"SSSE3", Ssse3>>,
       <<"SSE41", Sse41>>, <<"SSE42", Sse42>>, <<"POPCNT", Popcnt>>,
       <<"LZCNT", Lzcnt>> >>

\* the flags checked after Avx
AvxChecks ==
    << <<"AVX_F16C", AvxF16c>>, <<"AVX_FMA", AvxFma>>, <<"AVX2", Avx2>>,
       <<"AVX512F", Avx512f>> >>

\* support of the operating system for saving the AVX registers
OsAvx == "OS_AVX"

SignalNames ==
    {k[1] : k \in Range(CpuidChecks)} \cup {"AVX", OsAvx}
    \cup {k[1] : k \in Range(AvxChecks)}

Detected(checks, sig) == UNION {k[2] : k \in {q \in Range(checks) : q[1] \in sig}}

detectX86(sig) ==
    IF "AVX" \in sig /\ OsAvx \in sig
    THEN BitOr(BitOr(Detected(CpuidChecks, sig), Avx), Detected(AvxChecks, sig))
    ELSE Detected(CpuidChecks, sig)

InitDetect ==
    /\ arch = "x86"
    /\ probing = TRUE
    /\ signals \in SUBSET SignalNames
    /\ macros \in {{}, MacroNames(arch)}
    /\ hw = {}
    /\ pc = "boot"
    /\ out = NoOut
    /\ c = {}
    /\ registry = {}
    /\ listed = <<>>
    /\ features = {}
    /\ selected = NoSelection
    /\ result = NoResult
    /\ slot = NoResult
    /\ ifunc = NoResult
    /\ invoked = NoResult
    /\ a = {}
    /\ b = {}
    /\ pa = NoPriority
    /\ pb = NoPriority
    /\ ps = NoPriority

\* the detection runs on the machine
Probe ==
    /\ pc = "boot"
    /\ pc' = "run"
    /\ hw' = detectX86(signals)
    /\ UNCHANGED <<arch, registry, listed, features, selected, result, slot,
                   ifunc, invoked, a, b, pa, pb, ps, probing, macros, signals,
                   c, out>>

NextDetect ==
    \/ Probe
    \/ CallRuntimeFeatures

SpecDetect == InitDetect /\ [][NextDetect]_vars

---------------------------------------------------------------------------
(* SpecAlgebra: the operators of Cpu::Features applied to feature sets A,  *)
(* B and C, A possibly a complement                                        *)

InitAlgebra ==
    /\ arch \in Architectures
    /\ a \in FeatureInputs(arch) \cup {BitNot(x) : x \in FeatureInputs(arch)}
    /\ b \in FeatureInputs(arch)
    /\ c \in FeatureInputs(arch)
    /\ pc = "operands"
    /\ out = NoOut
    /\ probing = FALSE
    /\ macros = {}
    /\ signals = {}
    /\ hw = {}
    /\ registry = {}
    /\ listed = <<>>
    /\ features = {}
    /\ selected = NoSelection
    /\ result = NoResult
    /\ slot = NoResult
    /\ ifunc = NoResult
    /\ invoked = NoResult
    /\ pa = NoPriority
    /\ pb = NoPriority
    /\ ps = NoPriority

\* A | B, A & B and their comparison with the operands, A | A and A & A
Combine ==
    /\ pc = "operands"
    /\ out' = [op |-> "combine",
               or |-> BitOr(a, b),
               and |-> BitAnd(a, b),
               orGeA |-> FeaturesGe(BitOr(a, b), a),
               orGeB |-> FeaturesGe(BitOr(a, b), b),
               andLeA |-> FeaturesLe(BitAnd(a, b), a),
               andLeB |-> FeaturesLe(BitAnd(a, b), b),
               orAA |-> BitOr(a, a),
               andAA |-> BitAnd(a, a)]
    /\ UNCHANGED <<arch, registry, listed, pc, features, selected, result, hw,
                   slot, ifunc, invoked, a, b, pa, pb, ps, probing, macros,
                   signals, c>>

\* ~A and ~~A
Complement ==
    /\ pc = "operands"
    /\ out' = [op |-> "complement",
               not |-> BitNot(a),
               notnot |-> BitNot(BitNot(a))]
    /\ UNCHANGED <<arch, registry, listed, pc, features, selected, result, hw,
                   slot, ifunc, invoked, a, b, pa, pb, ps, probing, macros,
                   signals, c>>

\* the comparisons among A, B and C
Compare ==
    /\ pc = "operands"
    /\ out' = [op |-> "compare",
               leAA |-> FeaturesLe(a, a),
               leAB |-> FeaturesLe(a, b),
               leBA |-> FeaturesLe(b, a),
               leBC |-> FeaturesLe(b, c),
               leAC |-> FeaturesLe(a, c),
               geAB |-> FeaturesGe(a, b),
               geBA |-> FeaturesGe(b, a),
               eqAB |-> a = b]
    /\ UNCHANGED <<arch, registry, listed, pc, features, selected, result, hw,
                   slot, ifunc, invoked, a, b, pa, pb, ps, probing, macros,
                   signals, c>>

NextAlgebra ==
    \/ Combine
    \/ Complement
    \/ Compare

SpecAlgebra == InitAlgebra /\ [][NextAlgebra]_vars

---------------------------------------------------------------------------
(* SpecTags: two tag values composed with operator| and then used in       *)
(* CORRADE_CPU_SELECT, or one converted to the other                       *)

\* the tag types of the hierarchy: <<derived, base>> for struct derived: base
Derives(ar) ==
    CASE ar = "x86" -> {<<Sse2, Scalar>>, <<Sse3, Sse2>>, <<Ssse3, Sse3>>,
                        <<Sse41, Ssse3>>, <<Sse42, Sse41>>, <<Avx, Sse42>>,
                        <<Avx2, Avx>>, <<Avx512f, Avx2>>}
      [] ar = "arm" -> {<<Neon, Scalar>>, <<NeonFma, Neon>>, <<NeonFp16, NeonFma>>}
      [] ar = "wasm" -> {<<Simd128, Scalar>>}
      [] OTHER -> {}

\* operator| keeping only the higher of two base tags
TagsOrHighestBase(value, otherValue) ==
    LET all == BitOr(value, otherValue)
        base == BitAnd(all, BaseTagMask)
    IN  BitOr(IF base = {} THEN {} ELSE {Max(base)}, BitAnd(all, ExtraTagMask))

\* Tags<value>::operator|(Tags<otherValue>), operator|(T, U): the type
\* Tags<value | otherValue>, without a condition
TagsOr(value, otherValue) == BitOr(value, otherValue)

InitTags ==
    /\ arch \in Architectures
    /\ a \in FeatureInputs(arch)
    /\ b \in FeatureInputs(arch)
    /\ pc = "tags"
    /\ out = NoOut
    /\ pa = NoPriority
    /\ pb = NoPriority
    /\ ps = NoPriority
    /\ c = {}
    /\ probing = FALSE
    /\ macros = {}
    /\ signals = {}
    /\ hw = {}
    /\ registry = {}
    /\ listed = <<>>
    /\ features = {}
    /\ selected = NoSelection
    /\ result = NoResult
    /\ slot = NoResult
    /\ ifunc = NoResult
    /\ invoked = NoResult

\* a | b on two tags or tag combinations
ComposeTags ==
    /\ pc = "tags"
    /\ pc' = "composed"
    /\ out' = [op |-> "compose", accepted |-> TRUE, value |-> TagsOr(a, b)]
    /\ UNCHANGED <<arch, registry, listed, features, selected, result, hw,
                   slot, ifunc, invoked, a, b, pa, pb, ps, probing, macros,
                   signals, c>>

\* CORRADE_CPU_SELECT(a | b): the priority of the composed combination
SelectComposed ==
    /\ pc = "composed"
    /\ pc' = "selected"
    /\ pa' = priorityTags(arch, out.value)
    /\ UNCHANGED <<arch, registry, listed, features, selected, result, hw,
                   slot, ifunc, invoked, a, b, pb, ps, probing, macros,
                   signals, c, out>>

\* Tags<a> constructed from an argument Tags<b>, and from the tag b itself
\* when b is the Index of a tag type
ConvertTags ==
    /\ pc = "tags"
    /\ pc' = "converted"
    /\ out' = [op |-> "convert",
               allowed |-> IsTagConversionAllowed(a, b),
               single |-> b \in TagTypes(arch),
               singleAllowed |-> b \in TagTypes(arch)
                                 /\ IsSingleTagConversionAllowed(a, b)]
    /\ UNCHANGED <<arch, registry, listed, features, selected, result, hw,
                   slot, ifunc, invoked, a, b, pa, pb, ps, probing, macros,
                   signals, c>>

NextTags ==
    \/ ComposeTags
    \/ SelectComposed
    \/ ConvertTags

SpecTags == InitTags /\ [][NextTags]_vars

---------------------------------------------------------------------------
(* SpecTraits: TypeTraits<T>::Index and TypeTraits<T>::name() asked for    *)
(* two tag types of an architecture                                        *)

Trait(type, index, name) == [type |-> type, index |-> index, name |-> name]

\* the table with the name of NeonFmaT and of LzcntT copied from the
\* specialization above them
TypeTraitsCopiedName(ar) ==
    CASE ar = "x86" ->
            {Trait("ScalarT", Scalar, "Scalar"), Trait("Sse2T", Sse2, "Sse2"),
             Trait("Sse3T", Sse3, "Sse3"), Trait("Ssse3T", Ssse3, "Ssse3"),
             Trait("Sse41T", Sse41, "Sse41"), Trait("Sse42T", Sse42, "Sse42"),
             Trait("AvxT", Avx, "Avx"), Trait("Avx2T", Avx2, "Avx2"),
             Trait("Avx512fT", Avx512f, "Avx512f"),
             Trait("PopcntT", Popcnt, "Popcnt"), Trait("LzcntT", Lzcnt, "Popcnt"),
             Trait("AvxF16cT", AvxF16c, "AvxF16c"),
             Trait("AvxFmaT", AvxFma, "AvxFma")}
      [] ar = "arm" ->
            {Trait("ScalarT", Scalar, "Scalar"), Trait("NeonT", Neon, "Neon"),
             Trait("NeonFmaT", NeonFma, "Neon"),
             Trait("NeonFp16T", NeonFp16, "NeonFp16")}
      [] ar = "wasm" ->
            {Trait("ScalarT", Scalar, "Scalar"),
             Trait("Simd128T", Simd128, "Scalar")}
      [] OTHER -> {}

\* the specializations of TypeTraits on an architecture
TypeTraits(ar) ==
    CASE ar = "x86" ->
            {Trait("ScalarT", Scalar, "Scalar"), Trait("Sse2T", Sse2, "Sse2"),
             Trait("Sse3T", Sse3, "Sse3"), Trait("Ssse3T", Ssse3, "Ssse3"),
             Trait("Sse41T", Sse41, "Sse41"), Trait("Sse42T", Sse42, "Sse42"),
             Trait("AvxT", Avx, "Avx"), Trait("Avx2T", Avx2, "Avx2"),
             Trait("Avx512fT", Avx512f, "Avx512f"),
             Trait("PopcntT", Popcnt, "Popcnt"), Trait("LzcntT", Lzcnt, "Lzcnt"),
             Trait("AvxF16cT", AvxF16c, "AvxF16c"),
             Trait("AvxFmaT", AvxFma, "AvxFma")}
      [] ar = "arm" ->
            {Trait("ScalarT", Scalar, "Scalar"), Trait("NeonT", Neon, "Neon"),
             Trait("NeonFmaT", NeonFma, "NeonFma"),
             Trait("NeonFp16T", NeonFp16, "NeonFp16")}
      [] ar = "wasm" ->
            {Trait("ScalarT", Scalar, "Scalar"),
             Trait("Simd128T", Simd128, "Simd128")}
      [] OTHER -> {}

TagTypeNames(ar) == {t.type : t \in TypeTraits(ar)}

\* TypeTraits<T>: the specialization for the type T
TraitsOf(ar, type) == CHOOSE t \in TypeTraits(ar) : t.type = type

InitTraits ==
    /\ arch \in Architectures
    /\ pc = "traits"
    /\ out = NoOut
    /\ a = {}
    /\ b = {}
    /\ c = {}
    /\ pa = NoPriority
    /\ pb = NoPriority
    /\ ps = NoPriority
    /\ probing = FALSE
    /\ macros = {}
    /\ signals = {}
    /\ hw = {}
    /\ registry = {}
    /\ listed = <<>>
    /\ features = {}
    /\ selected = NoSelection
    /\ result = NoResult
    /\ slot = NoResult
    /\ ifunc = NoResult
    /\ invoked = NoResult

\* TypeTraits<T>::name(), TypeTraits<T>::Index, TypeTraits<U>::name(),
\* TypeTraits<U>::Index, and TypeTraits<T>::name() once more
QueryTraits(T, U) ==
    /\ pc = "traits"
    /\ out' = [op |-> "traits", T |-> T, U |-> U,
               nameT |-> TraitsOf(arch, T).name,
               indexT |-> TraitsOf(arch, T).index,
               nameU |-> TraitsOf(arch, U).name,
               indexU |-> TraitsOf(arch, U).index,
               nameTAgain |-> TraitsOf(arch, T).name]
    /\ UNCHANGED <<arch, registry, listed, pc, features, selected, result, hw,
                   slot, ifunc, invoked, a, b, pa, pb, ps, probing, macros,
                   signals, c>>

NextTraits == \E T \in TagTypeNames(arch), U \in TagTypeNames(arch) : QueryTraits(T, U)

SpecTraits == InitTraits /\ [][NextTraits]_vars

---------------------------------------------------------------------------
(* SpecPointer and SpecIfunc: a process whose translation unit declared    *)
(* the overloads, built the dispatcher and binds it at load time           *)

\* argument lists of CORRADE_CPU_DISPATCHER made of extra tags
ExtraLists(ar) ==
    {l \in UNION {[1 .. n -> UsedExtraTags(ar)] : n \in 0 .. MaxListed} :
        \A i \in DOMAIN l, j \in DOMAIN l : l[i] = l[j] => i = j}

\* a program that compiled: the dispatcher over its overloads builds
InitCached ==
    /\ arch \in Architectures
    /\ listed \in ExtraLists(arch)
    /\ registry \in {r \in SUBSET DeclarableTags(arch) :
                        /\ Cardinality(r) <= MaxVariants
                        /\ BuildOutcome(arch, r, listed) = "ok"}
    /\ hw \in FeatureInputs(arch)
    /\ pc = "load"
    /\ features = {}
    /\ selected = NoSelection
    /\ result = NoResult
    /\ slot = NoResult
    /\ ifunc = NoResult
    /\ invoked = NoResult
    /\ a = {}
    /\ b = {}
    /\ pa = NoPriority
    /\ pb = NoPriority
    /\ ps = NoPriority
    /\ probing = TRUE
    /\ macros = {}
    /\ signals = {}
    /\ c = {}
    /\ out = NoOut

\* CallPointer running the dispatcher again on every call
CallPointerRedispatch ==
    /\ pc = "run"
    /\ slot' = Dispatcher(arch, registry, listed, runtimeFeatures)
    /\ invoked' = slot'
    /\ UNCHANGED <<arch, registry, listed, pc, features, selected, result, hw,
                   ifunc, a, b, pa, pb, ps>>
    /\ UNCHANGED queryVars

\* CORRADE_CPU_DISPATCHED_POINTER: the global constructor assigns the pointer
GlobalInit ==
    /\ pc = "load"
    /\ pc' = "run"
    /\ slot' = Dispatcher(arch, registry, listed, runtimeFeatures)
    /\ UNCHANGED <<arch, registry, listed, features, selected, result, hw,
                   ifunc, invoked, a, b, pa, pb, ps>>
    /\ UNCHANGED queryVars

\* a call through the pointer
CallPointer ==
    /\ pc = "run"
    /\ invoked' = slot
    /\ UNCHANGED <<arch, registry, listed, pc, features, selected, result, hw,
                   slot, ifunc, a, b, pa, pb, ps>>
    /\ UNCHANGED queryVars

\* the pointer is assigned another variant, as a test does
Reassign(v) ==
    /\ pc = "run"
    /\ slot' = Variant(v)
    /\ UNCHANGED <<arch, registry, listed, pc, features, selected, result, hw,
                   ifunc, invoked, a, b, pa, pb, ps>>
    /\ UNCHANGED queryVars

NextPointer ==
    \/ GlobalInit
    \/ CallPointer
    \/ \E v \in registry : Reassign(v)

SpecPointer == InitCached /\ [][NextPointer]_vars

\* a resolver that runs before the features can be queried and sees none
ResolveIfuncNoFeatures ==
    /\ pc = "load"
    /\ pc' = "run"
    /\ ifunc' = Dispatcher(arch, registry, listed, {})
    /\ UNCHANGED <<arch, registry, listed, features, selected, result, hw,
                   slot, invoked, a, b, pa, pb, ps>>
    /\ UNCHANGED queryVars

\* CORRADE_CPU_DISPATCHED_IFUNC: the dynamic linker runs the resolver
ResolveIfunc ==
    /\ pc = "load"
    /\ pc' = "run"
    /\ ifunc' = Dispatcher(arch, registry, listed, runtimeFeatures)
    /\ UNCHANGED <<arch, registry, listed, features, selected, result, hw,
                   slot, invoked, a, b, pa, pb, ps>>
    /\ UNCHANGED queryVars

\* a call of the function
CallIfunc ==
    /\ pc = "run"
    /\ invoked' = ifunc
    /\ UNCHANGED <<arch, registry, listed, pc, features, selected, result, hw,
                   slot, ifunc, a, b, pa, pb, ps>>
    /\ UNCHANGED queryVars

NextIfunc ==
    \/ ResolveIfunc
    \/ CallIfunc

SpecIfunc == InitCached /\ [][NextIfunc]_vars

---------------------------------------------------------------------------
(* what the claims speak of, stated on the bits *)

BaseBits == 0 .. (ExtraTagBitOffset - 1)
BasePart(v) == v \cap BaseBits
ExtraPart(v) == v \ BaseBits

\* 0 for Scalar, bit position + 1 of the highest base bit otherwise
TierOf(v) == IF BasePart(v) = {} THEN 0 ELSE Max(BasePart(v)) + 1

\* at most one base bit, extras among the architecture's extra tags
IsValidCombination(ar, v) ==
    /\ Cardinality(BasePart(v)) <= 1
    /\ ExtraPart(v) \subseteq UNION Range(ExtraTags(ar))
    /\ BasePart(v) \subseteq UNION Range(BaseTags(ar))

---------------------------------------------------------------------------
(* claims on the priority *)

AllExtras(ar) == UNION Range(ExtraTags(ar))

\* C3: for valid tag combinations a and b, a higher base tier of a gives a
\* strictly higher priority than b, whatever extra tags either carries
C3_BaseTierOutranksExtras ==
    (/\ pc = "ranked"
     /\ IsValidCombination(arch, a)
     /\ IsValidCombination(arch, b)
     /\ TierOf(a) > TierOf(b))
    => (pa.accepted /\ pb.accepted /\ pa.index > pb.index)

\* Sse2 alone against Scalar with every x86 extra tag
C3_Witness ==
    /\ pc = "ranked"
    /\ arch = "x86"
    /\ a = Sse2
    /\ b = AllExtras("x86")
    /\ pa.index > pb.index

\* C4: the priority of a valid combination is baseRank * (ExtraTagCount + 1)
\* + the number of its extra bits; priority(T) of a lone tag is the same
\* value, and 1 for an extra tag
C4_PriorityFormula ==
    pc = "ranked" =>
        /\ IsValidCombination(arch, a) =>
             pa = Accepted(TierOf(a) * (ExtraTagCount(arch) + 1)
                           + Cardinality(ExtraPart(a)))
        /\ IsValidCombination(arch, b) =>
             pb = Accepted(TierOf(b) * (ExtraTagCount(arch) + 1)
                           + Cardinality(ExtraPart(b)))
        /\ a \in TagTypes(arch) => ps = pa
        /\ a \in Range(ExtraTags(arch)) => ps = Accepted(1)

\* Popcnt alone, and Avx2 with two extra tags: 7 * 5 + 2
C4_Witness ==
    /\ pc = "ranked"
    /\ arch = "x86"
    /\ a = Popcnt
    /\ ps = Accepted(1)
    /\ b = BitOr(Avx2, BitOr(Popcnt, AvxFma))
    /\ pb = Accepted(37)

\* C5: two different valid combinations have the same priority only when
\* they have the same base tag and the same number of extra tags
C5_TiesOnlyBetweenEqualRanks ==
    (/\ pc = "ranked"
     /\ IsValidCombination(arch, a)
     /\ IsValidCombination(arch, b)
     /\ a # b
     /\ pa.accepted /\ pb.accepted
     /\ pa.index = pb.index)
    => /\ BasePart(a) = BasePart(b)
       /\ Cardinality(ExtraPart(a)) = Cardinality(ExtraPart(b))
       /\ ExtraPart(a) # ExtraPart(b)

\* Sse41|Popcnt and Sse41|Lzcnt tie
C5_Witness ==
    /\ pc = "ranked"
    /\ a = BitOr(Sse41, Popcnt)
    /\ b = BitOr(Sse41, Lzcnt)
    /\ pa.accepted /\ pb.accepted
    /\ pa.index = pb.index

---------------------------------------------------------------------------
(* claims on the selection and on the runtime dispatcher *)

\* the variants of reg that are safe for the tags v: no higher base tier and
\* no extra tag that v lacks
SafeFor(reg, v) ==
    {D \in reg : TierOf(D) <= TierOf(v) /\ ExtraPart(D) \subseteq ExtraPart(v)}

\* the listed tags as one set of bits
ListedBits == UNION Range(listed)

\* every declared variant uses only extra tags listed in the dispatcher
ExtrasAreListed == \A D \in registry : ExtraPart(D) \subseteq ListedBits

\* every base bit below the highest base bit of F is in F as well
DownwardClosed(F) == \A i \in 0 .. (TierOf(F) - 1) : i \in F

\* C1, read on the bits: the variant the dispatcher returns is a bitwise subset of
\* F, and no variant that is a bitwise subset of F has a higher priority
C1_ReturnedIsBitwiseSubset ==
    (pc = "dispatched" /\ Scalar \in registry /\ ExtrasAreListed) =>
        /\ result.kind = "variant"
        /\ FeaturesLe(result.tag, features)
        /\ \A W \in registry :
             FeaturesLe(W, features) =>
                DeclaredPriority(arch, W).index
                    <= DeclaredPriority(arch, result.tag).index

\* C1, read on the tiers: the variant the dispatcher returns has its extra bits in F
\* and a base tier at or below the highest base bit of F (so it is a bitwise
\* subset of F when F holds every base bit below its highest one), and no
\* variant safe in that sense has a higher priority
C1_ReturnedIsSafeAndBest ==
    (pc = "dispatched" /\ Scalar \in registry /\ ExtrasAreListed) =>
        /\ result.kind = "variant"
        /\ result.tag \in SafeFor(registry, features)
        /\ DownwardClosed(features) => FeaturesLe(result.tag, features)
        /\ \A W \in SafeFor(registry, features) :
             DeclaredPriority(arch, W).index
                <= DeclaredPriority(arch, result.tag).index

\* F = {Sse3} without Sse2: the Sse2 variant is returned
C1_Witness ==
    /\ pc = "dispatched"
    /\ arch = "x86"
    /\ registry = {Scalar, Sse2, BitOr(Sse3, Popcnt)}
    /\ listed = <<Popcnt>>
    /\ features = Sse3
    /\ result = Variant(Sse2)

TopSafe(ar, reg, v) ==
    {D \in SafeFor(reg, v) :
        \A O \in SafeFor(reg, v) :
            DeclaredPriority(ar, D).index >= DeclaredPriority(ar, O).index}

\* C6: when two variants safe for the selected tags share the highest
\* priority, selection ends in the ambiguity error; a variant declared for
\* exactly the selected tags is selected, without ambiguity
C6_TieIsAmbiguous ==
    pc = "direct" =>
        /\ Cardinality(TopSafe(arch, registry, selected.value)) >= 2
             => result = Ambiguous
        /\ Cardinality(TopSafe(arch, registry, selected.value)) = 1
             => result.kind = "variant"
                /\ result.tag \in TopSafe(arch, registry, selected.value)
        /\ selected.value \in registry => result = Variant(selected.value)

\* {Sse3|Popcnt} and {Sse3|Lzcnt} selected with Sse3|Popcnt|Lzcnt
C6_Witness ==
    /\ pc = "direct"
    /\ registry = {BitOr(Sse3, Popcnt), BitOr(Sse3, Lzcnt)}
    /\ selected = [single |-> FALSE, value |-> BitOr(Sse3, BitOr(Popcnt, Lzcnt))]
    /\ result = Ambiguous

\* C7: with a Scalar variant a selection always has a candidate and the
\* dispatcher never fails for want of one; without a Scalar variant the
\* empty set has no candidate and the dispatcher does not build
C7_ScalarFallbackIsMandatory ==
    /\ (pc = "direct" /\ Scalar \in registry) => result.kind \in {"variant", "ambiguous"}
    /\ (pc = "direct" /\ Scalar \notin registry /\ selected.value = Scalar)
         => result = NoMatch
    /\ (pc \in {"built", "failed"} /\ Scalar \in registry) => result.kind # "nomatch"
    /\ (pc \in {"built", "failed", "dispatched"} /\ Scalar \notin registry)
         => pc = "failed"
    /\ pc = "dispatched" => result.kind = "variant"

\* a dispatcher over {Sse2, Sse3|Popcnt} alone is refused
C7_Witness ==
    /\ pc = "failed"
    /\ registry = {Sse2, BitOr(Sse3, Popcnt)}
    /\ listed = <<Popcnt>>
    /\ result.kind = "nomatch"

\* the highest base tag of the architecture present in F
HighestBaseTag(ar, F) ==
    LET present == {t \in Range(BaseTags(ar)) : t \subseteq F}
    IN  IF present = {} THEN Scalar ELSE CHOOSE t \in present : TierOf(t) = TierOf(UNION present)

\* the ways to write the tags v in CORRADE_CPU_SELECT
SelectForms(ar, v) ==
    {[single |-> FALSE, value |-> v]}
    \cup (IF v \in TagTypes(ar) THEN {[single |-> TRUE, value |-> v]} ELSE {})

\* C8: the dispatcher returns what CORRADE_CPU_SELECT picks for the highest
\* base tag present in F together with the listed extra tags present in F
C8_DispatcherMatchesSelect ==
    pc = "dispatched" =>
        \A sel \in SelectForms(arch, BitOr(HighestBaseTag(arch, features),
                                           BitAnd(features, ListedBits))) :
            result = OverloadResolution(arch, registry, sel)

\* F = {Sse2, Sse3, Popcnt, Lzcnt} with only Lzcnt listed
C8_Witness ==
    /\ pc = "dispatched"
    /\ registry = {Scalar, BitOr(Sse2, Popcnt), BitOr(Sse3, Lzcnt)}
    /\ listed = <<Lzcnt>>
    /\ features = BitOr(BitOr(Sse2, Sse3), BitOr(Popcnt, Lzcnt))
    /\ selected = [single |-> FALSE, value |-> BitOr(Sse3, Lzcnt)]
    /\ result = Variant(BitOr(Sse3, Lzcnt))

---------------------------------------------------------------------------
(* SpecBits: BitCount<A> and BitIndex<A> instantiated for an unsigned      *)
(* short A                                                                 *)

\* the values of an unsigned short, as sets of bit positions
ShortWords == SUBSET (0 .. 15)

InitBits ==
    /\ arch \in {"x86"}
    /\ c \in ShortWords
    /\ pc = "word"
    /\ out = NoOut
    /\ registry = {}
    /\ listed = <<>>
    /\ features = {}
    /\ selected = NoSelection
    /\ result = NoResult
    /\ hw = {}
    /\ slot = NoResult
    /\ ifunc = NoResult
    /\ invoked = NoResult
    /\ a = {}
    /\ b = {}
    /\ pa = NoPriority
    /\ pb = NoPriority
    /\ ps = NoPriority
    /\ probing = FALSE
    /\ macros = {}
    /\ signals = {}

\* BitCount<A>::Value and BitIndex<A>::Value for A = c
InstantiateBits ==
    /\ pc = "word"
    /\ pc' = "counted"
    /\ out' = [op |-> "bits", count |-> BitCount(ToNat(c)),
               index |-> BitIndex(ToNat(c))]
    /\ UNCHANGED <<arch, registry, listed, features, selected, result, hw, slot,
                   ifunc, invoked, a, b, pa, pb, ps, probing, macros, signals, c>>

NextBits == InstantiateBits

SpecBits == InitBits /\ [][NextBits]_vars

---------------------------------------------------------------------------
(* SpecBase: the dispatcher of CORRADE_CPU_DISPATCHER_BASE called twice    *)

\* the chain of CORRADE_CPU_DISPATCHER_BASE testing the lowest base tag first
RECURSIVE BaseImplementationLowestFirst(_, _)
BaseImplementationLowestFirst(F, tiers) ==
    IF tiers = <<>> THEN Scalar
    ELSE IF BitAnd(F, tiers[Len(tiers)]) # {}
         THEN tiers[Len(tiers)]
         ELSE BaseImplementationLowestFirst(F, SubSeq(tiers, 1, Len(tiers) - 1))

\* if(features & Tag) return function(Tag); from the highest base tag down,
\* return function(Cpu::Scalar) at the end: the tag the overload is called with
RECURSIVE BaseImplementation(_, _)
BaseImplementation(F, tiers) ==
    IF tiers = <<>> THEN Scalar
    ELSE IF BitAnd(F, Head(tiers)) # {}
         THEN Head(tiers)
         ELSE BaseImplementation(F, Tail(tiers))

\* type function(Cpu::Features) generated by CORRADE_CPU_DISPATCHER_BASE
DispatcherBase(ar, reg, F) ==
    OverloadResolution(ar, reg,
        [single |-> TRUE, value |-> BaseImplementation(F, BaseTags(ar))])

\* the calls function(Tag) in the body, all of which have to compile
BaseInstantiations(ar) ==
    {[single |-> TRUE, value |-> t] : t \in {Scalar} \cup Range(BaseTags(ar))}

BaseBuilds(ar, reg) ==
    \A sel \in BaseInstantiations(ar) :
        OverloadResolution(ar, reg, sel).kind = "variant"

InitBase ==
    /\ arch \in Architectures
    /\ registry \in {r \in SUBSET DeclarableTags(arch) :
                        Cardinality(r) <= MaxVariants /\ BaseBuilds(arch, r)}
    /\ pc = "built"
    /\ listed = <<>>
    /\ features = {}
    /\ selected = NoSelection
    /\ result = NoResult
    /\ out = NoOut
    /\ hw = {}
    /\ slot = NoResult
    /\ ifunc = NoResult
    /\ invoked = NoResult
    /\ a = {}
    /\ b = {}
    /\ c = {}
    /\ pa = NoPriority
    /\ pb = NoPriority
    /\ ps = NoPriority
    /\ probing = FALSE
    /\ macros = {}
    /\ signals = {}

\* a call function(F); the call before it is kept for comparison
DispatchBase(F) ==
    /\ pc \in {"built", "called"}
    /\ pc' = IF pc = "built" THEN "called" ELSE "again"
    /\ features' = F
    /\ selected' = [single |-> TRUE, value |-> BaseImplementation(F, BaseTags(arch))]
    /\ result' = DispatcherBase(arch, registry, F)
    /\ out' = [op |-> "base", features |-> features, result |-> result]
    /\ UNCHANGED <<arch, registry, listed, hw, slot, ifunc, invoked, a, b, pa,
                   pb, ps, probing, macros, signals, c>>

NextBase == \E F \in FeatureInputs(arch) : DispatchBase(F)

SpecBase == InitBase /\ [][NextBase]_vars

---------------------------------------------------------------------------
(* SpecBinding: a build in which runtimeFeatures() is compiledFeatures();  *)
(* the same overloads bound by the cached pointer, by the ifunc resolver   *)
(* and by a direct call with CORRADE_CPU_SELECT(Cpu::Default)              *)

\* the macros a compiler defines: a base instruction set together with all
\* the base instruction sets below it, and any of the extra ones
BuildConfigurations(ar) ==
    LET n == Len(BaseTags(ar))
        upTo(k) == {m[1] : m \in {q \in Range(BuildMacros(ar)) :
                        \E i \in (n - k + 1) .. n : q[2] = BaseTags(ar)[i]}}
        extras == {m[1] : m \in {q \in Range(BuildMacros(ar)) : q[2] \in UsedExtraTags(ar)}}
    IN  {upTo(k) \cup e : k \in 0 .. n, e \in SUBSET extras}

\* tags of the overloads: the used tags and the highest base tag
BindingTags(ar) ==
    {BitOr(base, extra) :
        base \in {Scalar} \cup UsedBaseTags(ar) \cup {BaseTags(ar)[1]},
        extra \in Combinations(UsedExtraTags(ar))}

InitBinding ==
    /\ arch \in Architectures
    /\ listed \in ExtraLists(arch)
    /\ registry \in {r \in SUBSET BindingTags(arch) :
                        /\ Scalar \in r
                        /\ Cardinality(r) <= MaxVariants
                        /\ \A D \in r : BitAnd(D, ExtraTagMask) \subseteq UNION Range(listed)
                        /\ BuildOutcome(arch, r, listed) = "ok"}
    /\ macros \in BuildConfigurations(arch)
    /\ probing = FALSE
    /\ hw = {}
    /\ pc = "load"
    /\ features = {}
    /\ selected = NoSelection
    /\ result = NoResult
    /\ slot = NoResult
    /\ ifunc = NoResult
    /\ invoked = NoResult
    /\ a = {}
    /\ b = {}
    /\ c = {}
    /\ pa = NoPriority
    /\ pb = NoPriority
    /\ ps = NoPriority
    /\ signals = {}
    /\ out = NoOut

\* function(CORRADE_CPU_SELECT(Cpu::Default)): Cpu::Default is a Tags<>
SelectDefault ==
    /\ pc = "run"
    /\ selected' = [single |-> FALSE, value |-> Default(arch, macros)]
    /\ result' = OverloadResolution(arch, registry, selected')
    /\ UNCHANGED <<arch, registry, listed, pc, features, hw, slot, ifunc,
                   invoked, a, b, pa, pb, ps, probing, macros, signals, c, out>>

NextBinding ==
    \/ GlobalInit
    \/ ResolveIfunc
    \/ SelectDefault

SpecBinding == InitBinding /\ [][NextBinding]_vars

---------------------------------------------------------------------------
(* claims on the cached dispatch *)

\* C9: the global initializer leaves dispatcher(runtimeFeatures()) in the
\* pointer; afterwards the pointer changes only in a reassignment, and a
\* call leaves it alone and invokes the variant it holds
C9_PointerChangesOnlyByReassignment ==
    [][/\ (pc = "load" /\ pc' = "run")
            => slot' = OverloadResolution(arch, registry,
                                          DispatcherSelect(arch, listed, hw))
       /\ (pc = "run" /\ slot' # slot) => \E v \in registry : Reassign(v)
       /\ invoked' # invoked => (slot' = slot /\ invoked' = slot)]_vars

\* a call after a reassignment invoked the newly assigned variant, not the
\* one the initializer chose
C9_Witness ==
    /\ pc = "run"
    /\ slot # Dispatcher(arch, registry, listed, hw)
    /\ invoked = slot

\* C10: once the resolver has run the function is bound to
\* dispatcher(runtimeFeatures()), every call invokes that variant and
\* nothing rebinds it
C10_IfuncBoundOnceAtLoad ==
    /\ pc = "load" => (ifunc = NoResult /\ invoked = NoResult)
    /\ pc = "run" =>
        /\ ifunc.kind = "variant"
        /\ ifunc = Dispatcher(arch, registry, listed, hw)
        /\ invoked \in {NoResult, ifunc}

\* on a machine with Sse3 and Popcnt the call runs the Sse3|Popcnt variant
C10_Witness ==
    /\ pc = "run"
    /\ hw = BitOr(BitOr(Sse2, Sse3), Popcnt)
    /\ registry = {Scalar, Sse2, BitOr(Sse3, Popcnt)}
    /\ ifunc = Variant(BitOr(Sse3, Popcnt))
    /\ invoked = ifunc

---------------------------------------------------------------------------
(* claims on the feature queries *)

\* the tags whose macro is defined in the build, of the macros that
\* compiledFeatures() tests
EnabledTags == {m[2] : m \in {q \in Range(TargetMacros(arch)) : q[1] \in macros}}

\* C11: where runtimeFeatures() is not the detecting function, every call of
\* it returns the bits of compiledFeatures(), one per defined macro, whatever
\* the machine has
C11_RuntimeIsCompiledWithoutProbing ==
    (out.op = "runtimeFeatures" /\ ~probing) =>
        /\ out.value = compiledFeatures(arch, macros)
        /\ \A t \in Range(BaseTags(arch)) \cup Range(ExtraTags(arch)) :
             (t \subseteq out.value) <=> (t \in EnabledTags)

\* a build with SSE2 and POPCNT on a machine that has every instruction set
C11_Witness ==
    /\ out.op = "runtimeFeatures"
    /\ ~probing
    /\ arch = "x86"
    /\ macros = {"SSE2", "POPCNT"}
    /\ hw = AllTags("x86")
    /\ out.value = BitOr(Sse2, Popcnt)

\* Avx and the flags checked after it
AvxAndLater == {Avx, AvxF16c, AvxFma, Avx2, Avx512f}

---------------------------------------------------------------------------
(* claims on the operators of Features *)

\* C13: A | B is a superset (>=) of A and of B, and A & B is a subset (<=)
\* of A and of B; the union holds the bits of both, the intersection only
\* bits of both
C13_UnionAboveIntersectionBelow ==
    out.op = "combine" =>
        /\ out.orGeA /\ out.orGeB
        /\ out.andLeA /\ out.andLeB
        /\ a \subseteq out.or /\ b \subseteq out.or
        /\ out.and \subseteq a /\ out.and \subseteq b

\* neither operand holds the other
C13_Witness ==
    /\ out.op = "combine"
    /\ ~(a \subseteq b)
    /\ ~(b \subseteq a)
    /\ out.and # {}
    /\ out.or # a
    /\ out.or # b

\* C14: ~~A = A on all 32 bits, A | A = A and A & A = A
C14_ComplementInvolutionIdempotence ==
    /\ out.op = "complement" =>
        /\ out.notnot = a
        /\ BitOr(out.not, a) = Word
        /\ BitAnd(out.not, a) = {}
    /\ out.op = "combine" => (out.orAA = a /\ out.andAA = a)

\* the complement of Sse2|Popcnt holds the bits no tag uses, bit 31 included
C14_Witness ==
    /\ out.op = "complement"
    /\ a = BitOr(Sse2, Popcnt)
    /\ 31 \in out.not
    /\ 15 \in out.not
    /\ out.notnot = BitOr(Sse2, Popcnt)

\* C15: <= is reflexive, antisymmetric and transitive, and A >= B holds
\* exactly when B <= A; A <= B exactly when every bit of A is in B
C15_SubsetIsPartialOrder ==
    out.op = "compare" =>
        /\ out.leAA
        /\ (out.leAB /\ out.leBA) => out.eqAB
        /\ (out.leAB /\ out.leBC) => out.leAC
        /\ out.geAB <=> out.leBA
        /\ out.geBA <=> out.leAB
        /\ out.leAB <=> (a \subseteq b)

\* a chain A < B < C of three different sets
C15_Witness ==
    /\ out.op = "compare"
    /\ out.leAB /\ out.leBC /\ out.leAC
    /\ a # b /\ b # c
    /\ ~out.leBA

---------------------------------------------------------------------------
(* claims on the tags: rejection, composition, layout, conversion *)

\* number of base bits set in a value
BaseBitCount(v) == Cardinality(v \cap (0 .. (ExtraTagBitOffset - 1)))

\* C16: priority() of a combination with two or more base bits fails with
\* "more than one base tag used" and gives no priority; a combination with
\* no or one base bit never fails with that message
C16_TwoBaseTagsRejected ==
    pc = "ranked" =>
        /\ BaseBitCount(a) >= 2 =>
             (~pa.accepted /\ MoreThanOneBase \in out.diagnostics)
        /\ BaseBitCount(a) <= 1 => MoreThanOneBase \notin out.diagnostics
        /\ pa.accepted <=> out.diagnostics = {}

\* Sse2|Sse3 is rejected while Sse3|Popcnt gets a priority
C16_Witness ==
    /\ pc = "ranked"
    /\ a = BitOr(Sse2, Sse3)
    /\ b = BitOr(Sse3, Popcnt)
    /\ ~pa.accepted
    /\ out.diagnostics = {MoreThanOneBase}
    /\ pb.accepted

\* both operands carry one base tag, and not the same one
TwoDifferentBases ==
    /\ Cardinality(BasePart(a)) = 1
    /\ Cardinality(BasePart(b)) = 1
    /\ BasePart(a) # BasePart(b)

\* C17, rejection at composition: a | b of two operands with different base
\* tags is rejected, and a union of operands with at most one base bit each
\* never has two base bits
C17_CompositionRejectsTwoBases ==
    out.op = "compose" =>
        /\ TwoDifferentBases => ~out.accepted
        /\ (BaseBitCount(a) <= 1 /\ BaseBitCount(b) <= 1 /\ out.accepted)
             => BaseBitCount(out.value) <= 1

\* C17, rejection at use: a | b is always accepted and is the bitwise union,
\* with two base bits when the operands carry different base tags; such a
\* combination is rejected when CORRADE_CPU_SELECT computes its priority
C17_CompositionIsUnionRejectedOnUse ==
    out.op = "compose" =>
        /\ out.accepted
        /\ out.value = a \cup b
        /\ TwoDifferentBases => BaseBitCount(out.value) = 2
        /\ pc = "selected" => (pa.accepted <=> BaseBitCount(out.value) <= 1)

\* Sse2 | (Sse3|Popcnt) composes to Sse2|Sse3|Popcnt, refused by priority()
C17_Witness ==
    /\ pc = "selected"
    /\ a = Sse2
    /\ b = BitOr(Sse3, Popcnt)
    /\ out.op = "compose"
    /\ out.value = UNION {Sse2, Sse3, Popcnt}
    /\ ~pa.accepted

\* C19: Scalar is 0; each base tag is one bit of bits 0..15, the base tags
\* of an architecture fill the bits from 0 upward without a gap, and a tag
\* type derived from another has the higher bit; each extra tag is one bit
\* of bits 16..31, the extra tags fill the bits from 16 upward without a
\* gap; base and extra bits are disjoint
C19_TagBitLayout ==
    LET bases == Range(BaseTags(arch))
        extras == Range(ExtraTags(arch))
    IN  /\ ToNat(Scalar) = 0
        /\ \A t \in bases : Cardinality(t) = 1 /\ t \subseteq 0 .. 15
        /\ Cardinality(bases) = Len(BaseTags(arch))
        /\ UNION bases = 0 .. (Len(BaseTags(arch)) - 1)
        /\ \A d \in Derives(arch) :
             /\ d[1] \in bases
             /\ d[2] = Scalar \/ (d[2] \in bases /\ Max(d[1]) > Max(d[2]))
        /\ \A t \in bases : \E d \in Derives(arch) : d[1] = t
        /\ \A t \in extras : Cardinality(t) = 1 /\ t \subseteq 16 .. 31
        /\ Cardinality(extras) = Len(ExtraTags(arch))
        /\ UNION extras
             = ExtraTagBitOffset .. (ExtraTagBitOffset + Len(ExtraTags(arch)) - 1)
        /\ Len(ExtraTags(arch)) = ExtraTagCount(arch)
        /\ BitAnd(UNION bases, UNION extras) = {}
        /\ BitAnd(BaseTagMask, ExtraTagMask) = {}
        /\ UNION bases \subseteq BaseTagMask
        /\ UNION extras \subseteq ExtraTagMask

\* on x86 Sse3 | Popcnt is 1 << 1 | 1 << 16
C19_Witness ==
    /\ arch = "x86"
    /\ out.op = "compose"
    /\ a = Sse3
    /\ b = Popcnt
    /\ ToNat(out.value) = 65538

\* the conversion condition, stated on tiers and extra bits: s converts to t
SourceCovers(s, t) ==
    /\ TierOf(s) >= TierOf(t)
    /\ ExtraPart(t) \subseteq ExtraPart(s)

\* C20, target above source: constructing Tags<a> from Tags<b> is accepted
\* only when a's base tag is the same as or higher than b's and a's extra
\* bits hold b's
C20_TargetCoversSource ==
    out.op = "convert" =>
        /\ out.allowed => SourceCovers(a, b)
        /\ out.singleAllowed => SourceCovers(a, b)

\* C20, source above target: constructing Tags<a> from Tags<b> (or from the
\* tag b) is accepted exactly when neither has two base bits, b's base tag
\* is the same as or higher than a's and b's extra bits hold a's
C20_SourceCoversTarget ==
    out.op = "convert" =>
        /\ out.allowed <=>
             (BaseBitCount(a) <= 1 /\ BaseBitCount(b) <= 1 /\ SourceCovers(b, a))
        /\ out.single =>
             (out.singleAllowed <=> (BaseBitCount(a) <= 1 /\ SourceCovers(b, a)))

\* Tags<Sse2> is constructed from Tags<Sse3|Popcnt>
C20_Witness ==
    /\ out.op = "convert"
    /\ a = Sse2
    /\ b = BitOr(Sse3, Popcnt)
    /\ out.allowed
    /\ ~out.single

---------------------------------------------------------------------------
(* claims on the compiled feature set *)

\* the last query returned the build-configured set
CompiledSetReturned ==
    \/ out.op = "compiledFeatures"
    \/ out.op = "runtimeFeatures" /\ ~probing

\* C18, one base bit: the build-configured set has no or one base bit
C18_CompiledHasAtMostOneBase ==
    CompiledSetReturned => BaseBitCount(out.value) <= 1

\* C18, one base bit per enabled tier: the build-configured set holds the
\* base bit of every base instruction set whose macro is defined, not only
\* of the highest, and the extra bits of the enabled extra instruction sets;
\* it holds nothing else
C18_CompiledHoldsEveryEnabledTier ==
    CompiledSetReturned =>
        /\ BasePart(out.value) = UNION {t \in EnabledTags : t \subseteq BaseBits}
        /\ BaseBitCount(out.value)
             = Cardinality({t \in EnabledTags : t \subseteq BaseBits})
        /\ ExtraPart(out.value) = UNION {t \in EnabledTags : ~(t \subseteq BaseBits)}
        /\ out.value \subseteq AllTags(arch)

\* a build with -msse3: SSE2 and SSE3 are both defined and both returned
C18_Witness ==
    /\ out.op = "compiledFeatures"
    /\ arch = "x86"
    /\ macros = {"SSE2", "SSE3", "POPCNT"}
    /\ out.value = UNION {Sse2, Sse3, Popcnt}
    /\ BaseBitCount(out.value) = 2

---------------------------------------------------------------------------
(* claims on the names of the tags *)

\* C21: two different tag types of an architecture, Scalar included, have
\* different names and different Index values, and a second call of name()
\* returns the same name
C21_NamesAndIndexesInjective ==
    out.op = "traits" =>
        /\ out.T # out.U => (out.nameT # out.nameU /\ out.indexT # out.indexU)
        /\ out.nameTAgain = out.nameT

\* Lzcnt and Popcnt, next to each other in the header
C21_Witness ==
    /\ out.op = "traits"
    /\ arch = "x86"
    /\ out.T = "LzcntT"
    /\ out.U = "PopcntT"
    /\ out.nameT = "Lzcnt"
    /\ out.nameU = "Popcnt"
    /\ out.indexT = Lzcnt

---------------------------------------------------------------------------
(* claims on the build-configured tags *)

\* C22: compiledFeatures() holds a tag exactly when the CORRADE_TARGET_*
\* macro of the tag is defined, for every tag of the architecture, Avx512f
\* among them
C22_CompiledHoldsTagIffMacroDefined ==
    out.op = "compiledFeatures" =>
        \A m \in Range(BuildMacros(arch)) :
            (m[2] \subseteq out.value) <=> (m[1] \in macros)

\* C23: DefaultBase is the highest base tag in compiledFeatures(), Scalar
\* when there is none, and Default is a subset of compiledFeatures()
C23_DefaultWithinCompiled ==
    out.op = "Default" =>
        /\ out.base = (IF BasePart(out.compiled) = {} THEN Scalar
                       ELSE {Max(BasePart(out.compiled))})
        /\ FeaturesLe(out.value, out.compiled)

---------------------------------------------------------------------------
(* claims on the three bindings *)

\* C24: where runtimeFeatures() is compiledFeatures(), the variant bound to
\* the pointer or by the resolver is the variant a direct call with
\* Cpu::Default selects, in every build, the AVX-512F ones included
C24_BindingsAgree ==
    (pc = "run" /\ ~probing /\ result.kind # "idle") =>
        /\ slot.kind # "idle" => slot = result
        /\ ifunc.kind # "idle" => ifunc = result

---------------------------------------------------------------------------
(* claims on the base dispatcher *)

\* the registered variants declared for a lone base tag or for Scalar
LoneBaseVariants == {D \in registry : ExtraPart(D) = {} /\ Cardinality(D) <= 1}

\* C25: the base dispatcher returns the variant of the highest base tier
\* not above the highest base bit of F, among the variants declared for a
\* base tag or Scalar (Scalar when there is no other); a variant declared
\* with an extra tag is never returned; two sets F with the same highest
\* base bit give the same variant, whatever their other bits
C25_BaseDispatcherPicksHighestTier ==
    pc \in {"called", "again"} =>
        /\ result.kind = "variant"
        /\ result.tag \in LoneBaseVariants
        /\ TierOf(result.tag) <= TierOf(features)
        /\ \A D \in LoneBaseVariants :
             TierOf(D) <= TierOf(features) => TierOf(D) <= TierOf(result.tag)
        /\ registry = LoneBaseVariants =>
             \A D \in registry :
                TierOf(D) <= TierOf(features) => TierOf(D) <= TierOf(result.tag)
        /\ (pc = "again" /\ TierOf(out.features) = TierOf(features))
             => out.result = result

\* Scalar and Sse2 variants: F = Sse2|Sse3 and F = Sse3|Popcnt both give Sse2
C25_Witness ==
    /\ pc = "again"
    /\ registry = {Scalar, Sse2}
    /\ out.features = BitOr(Sse2, Sse3)
    /\ features = BitOr(Sse3, Popcnt)
    /\ result = Variant(Sse2)
    /\ out.result = result

---------------------------------------------------------------------------
(* claims on priorities and conversions *)

\* C26: when the selected combination b converts to the declared
\* combination a, as Tags<b> or as the lone tag b, and both have a
\* priority, priority(a) <= priority(b): Priority<priority(b)> converts to
\* Priority<priority(a)>, and a declared combination of a higher priority
\* than the selected one is never one the selected tags convert to
C26_ConvertibleImpliesLowerPriority ==
    (pc = "ranked" /\ pa.accepted /\ pb.accepted) =>
        /\ IsTagConversionAllowed(a, b) =>
              /\ pa.index <= pb.index
              /\ PriorityConvertible(pa, pb)
        /\ (b \in TagTypes(arch) /\ IsSingleTagConversionAllowed(a, b)) =>
              /\ pa.index <= priorityTag(arch, b).index
              /\ PriorityConvertible(DeclaredPriority(arch, a), priorityTag(arch, b))
        /\ pa.index > pb.index =>
              /\ ~IsTagConversionAllowed(a, b)
              /\ b \in TagTypes(arch) => ~IsSingleTagConversionAllowed(a, b)

\* Sse3|Popcnt|Lzcnt converts to Sse2|Popcnt: priority 6 against 12
C26_Witness ==
    /\ pc = "ranked"
    /\ arch = "x86"
    /\ a = BitOr(Sse2, Popcnt)
    /\ b = BitOr(Sse3, BitOr(Popcnt, Lzcnt))
    /\ IsTagConversionAllowed(a, b)
    /\ pa = Accepted(6)
    /\ pb = Accepted(12)

---------------------------------------------------------------------------
(* claims on the extra tags listed in the dispatcher *)

\* feature sets with the highest base bit of F and its listed extra bits
SameListedView(ar, F) ==
    {G \in FeatureInputs(ar) :
        /\ TierOf(G) = TierOf(F)
        /\ ExtraPart(G) \cap ListedBits = ExtraPart(F) \cap ListedBits}

\* C27: the dispatcher never returns a variant declared with an extra tag
\* that is not in its list of extra tags, whatever F holds; the variant
\* returned for F is the one returned for every set with the same highest
\* base bit and the same listed extra bits
C27_UnlistedExtrasNeverReturned ==
    pc = "dispatched" =>
        /\ result.kind = "variant"
        /\ ExtraPart(result.tag) \subseteq ListedBits
        /\ \A G \in SameListedView(arch, features) :
              Dispatcher(arch, registry, listed, G) = result

\* the Sse2|Popcnt variant, Popcnt not listed, F = Sse2|Popcnt|Lzcnt: it
\* would be the best safe variant, Scalar is returned
C27_Witness ==
    /\ pc = "dispatched"
    /\ registry = {Scalar, BitOr(Sse2, Popcnt)}
    /\ listed = <<Lzcnt>>
    /\ features = BitOr(Sse2, BitOr(Popcnt, Lzcnt))
    /\ TopSafe(arch, registry, features) = {BitOr(Sse2, Popcnt)}
    /\ result = Variant(Scalar)

---------------------------------------------------------------------------
(* claims on the bounds of the extra tags *)

\* an extra bit at position ExtraTagBitOffset + ExtraTagCount or above
ExtraBitAboveCount(ar, v) ==
    \E i \in v : i >= ExtraTagBitOffset + ExtraTagCount(ar)

\* C28: priority(Tags<a>), and Features(T) for a tag of Index a, fail with
\* "extra tag out of expected bounds" for every a with an extra bit at
\* position 16 + ExtraTagCount or above; an accepted priority counts at most
\* ExtraTagCount extra bits; with ExtraTagCount = 0 every a with an extra bit
\* is rejected
C28_ExtraBitsAboveCountRejected ==
    pc = "ranked" =>
        /\ ExtraBitAboveCount(arch, a) =>
              /\ ~pa.accepted
              /\ ExtraOutOfBounds \in out.diagnostics
              /\ Cardinality(a) <= 1 => ExtraOutOfBounds \in out.construct
        /\ pa.accepted =>
              /\ Cardinality(ExtraPart(a)) <= ExtraTagCount(arch)
              /\ pa.index <= BitIndex(ToNat(BitAnd(a, BaseTagMask))) * (ExtraTagCount(arch) + 1)
                              + ExtraTagCount(arch)
        /\ (ExtraTagCount(arch) = 0 /\ ExtraPart(a) # {}) => ~pa.accepted

\* ARM, where ExtraTagCount is 0: Neon with bit 16 is rejected; so is the
\* lone bit 16 as a tag
C28_Witness ==
    /\ pc = "ranked"
    /\ arch = "arm"
    /\ a = BitOr(Neon, Bit(ExtraTagBitOffset))
    /\ b = Bit(ExtraTagBitOffset)
    /\ ~pa.accepted
    /\ ~pb.accepted
    /\ out.diagnostics = {ExtraOutOfBounds}

---------------------------------------------------------------------------
(* claims on BitCount and BitIndex *)

\* C29: for every 16-bit A, BitCount<A>::Value is the number of set bits of
\* A, from 0 to 16, and BitIndex<A>::Value is 0 for A = 0 and one more than
\* the position of the highest set bit of A otherwise
C29_BitCountAndBitIndex ==
    pc = "counted" =>
        /\ out.count = Cardinality(c)
        /\ out.count \in 0 .. 16
        /\ out.index = IF c = {} THEN 0 ELSE 1 + Max(c)

\* A = 0xffff: sixteen bits counted, index 16
C29_Witness ==
    /\ pc = "counted"
    /\ c = 0 .. 15
    /\ out.count = 16
    /\ out.index = 16

---------------------------------------------------------------------------
(* claims on the conversion from a single tag *)

====
